---- MODULE Spec2Model ----
(***************************************************************************)
(* Model of the user repository of mi-api-sqlite (src/models/userModel.mjs)*)
(* over the SQLite schema of src/db/sqliteClient.mjs.                      *)
(*                                                                         *)
(* Every repository call opens its own connection, issues its statements   *)
(* one callback at a time and settles a promise.  The store is the SQLite  *)
(* file shared by all connections: committed tables, the AUTOINCREMENT     *)
(* counters, and per connection the lock it holds and the uncommitted      *)
(* changes of its transaction.                                             *)
(*                                                                         *)
(* One action is one callback of the code, together with the statement it  *)
(* answers: the statement's effect on the store, then the callback's       *)
(* statements in their order (recorded in the call's trace).  Any          *)
(* statement may fail with a store fault (I/O error, SQLITE_BUSY); it may  *)
(* succeed only when SQLite's locks allow it.  "close" is the call of      *)
(* db.close(); a connection closed with an open transaction rolls it back. *)
(* FOREIGN KEY enforcement is off (the code never sets the pragma).  A     *)
(* statement on a table that does not exist (yet) fails.                   *)
(*                                                                         *)
(* The repository is called by the request handlers of the HTTP server     *)
(* (src/http/server.mjs).  Spec starts where the server is up and its      *)
(* schema connection has done its work; SpecServer starts where the        *)
(* process starts and adds the steps of the start-up.                      *)
(***************************************************************************)
EXTENDS Integers, Sequences, FiniteSets, TLC

\* ---------------------------------------------------------------- bounds
MaxOps == 2
MaxCalls == 3
MaxId == 2
MaxClock == 1

Ops == 1..MaxOps
Ids == 1..MaxId
Emails == {"a@x.com", "b@x.com"}
Names == {"A", "B"}

VARIABLES
    users,      \* committed rows of table users
    log,        \* committed rows of table user_deletions_log
    seqU,       \* sqlite_sequence of users (AUTOINCREMENT)
    seqL,       \* sqlite_sequence of user_deletions_log
    clock,      \* what new Date().toISOString() returns now
    op,         \* op[o]: the repository call running in slot o
    nOpen,      \* connections opened since the initial state
    nClose,     \* db.close() calls since the initial state
    created,    \* history: users returned by successful createUser calls
    removed,    \* history: results returned by successful deleteUserWithLog
    touched,    \* history: ids updateUser / deleteUserWithLog were called with
    recent,     \* history: the slots of the last calls made one after the other
    startup     \* the server process: its start-up script, its schema connection

vars == <<users, log, seqU, seqL, clock, op, nOpen, nClose, created, removed, touched, recent, startup>>

\* ------------------------------------------------------------ the schema
\* users(id INTEGER PRIMARY KEY AUTOINCREMENT, email TEXT NOT NULL UNIQUE,
\*       name TEXT NOT NULL, created_at TEXT NOT NULL)
UserRow(id, email, name, createdAt) ==
    [id |-> id, email |-> email, name |-> name, created_at |-> createdAt]

\* user_deletions_log(id AUTOINCREMENT, user_id, email, deleted_at)
LogRow(id, userId, email, deletedAt) ==
    [id |-> id, user_id |-> userId, email |-> email, deleted_at |-> deletedAt]

\* Mutants of EmailTaken: no UNIQUE constraint; one met by INSERT alone.
EmailTakenNever(tbl, email, selfId) == FALSE
EmailTakenInsertOnly(tbl, email, selfId) ==
    selfId = 0 /\ \E r \in tbl : r.email = email

\* The UNIQUE constraint on users.email, as an INSERT or UPDATE meets it:
\* some row other than the one being written already holds the email.
EmailTaken(tbl, email, selfId) ==
    \E r \in tbl : r.email = email /\ r.id # selfId

\* SELECT id, email, name, created_at FROM users WHERE id = ?
SelectById(tbl, id) == {r \in tbl : r.id = id}

\* Mutant of UpdateRows: the UPDATE also restamps created_at.
UpdateRowsStamped(tbl, id, email, name) ==
    {IF r.id = id THEN [r EXCEPT !.email = email, !.name = name, !.created_at = clock]
                  ELSE r : r \in tbl}

\* Mutant of UpdateRows: the WHERE clause does not restrict the new name.
UpdateRowsNoWhere(tbl, id, email, name) ==
    {IF r.id = id THEN [r EXCEPT !.email = email, !.name = name]
                  ELSE [r EXCEPT !.name = name] : r \in tbl}

\* UPDATE users SET email = ?, name = ? WHERE id = ?
UpdateRows(tbl, id, email, name) ==
    {IF r.id = id THEN [r EXCEPT !.email = email, !.name = name] ELSE r : r \in tbl}

\* DELETE FROM users WHERE id = ?
DeleteRows(tbl, id) == {r \in tbl : r.id # id}

\* Mutant of OrderById: the rows come back in descending order of id.
RECURSIVE OrderByIdDesc(_)
OrderByIdDesc(tbl) ==
    IF tbl = {} THEN <<>>
    ELSE LET last == CHOOSE r \in tbl : \A q \in tbl : r.id >= q.id
         IN  <<last>> \o OrderByIdDesc(tbl \ {last})

\* SELECT ... ORDER BY id ASC, as the sequence of rows db.all hands back.
RECURSIVE OrderById(_)
OrderById(tbl) ==
    IF tbl = {} THEN <<>>
    ELSE LET first == CHOOSE r \in tbl : \A q \in tbl : r.id <= q.id
         IN  <<first>> \o OrderById(tbl \ {first})

\* ---------------------------------------------------------- the start-up
Tables == {"users", "user_deletions_log"}
CreateStatements == <<"users", "user_deletions_log">>

\* startup.pc: "load" before the server module runs, "loaded" once its
\* top-level statements ran, "listening" once the port accepts requests;
\* db: the schema connection; timer: the setTimeout that closes it; queue:
\* the CREATE TABLE statements issued on it and not yet run; tables: the
\* tables the store holds.
Process(pc, db, timer, queue, tables) ==
    [pc |-> pc, db |-> db, timer |-> timer, queue |-> queue, tables |-> tables]
Started == Process("listening", "closed", "fired", <<>>, Tables)

Listening == startup.pc = "listening"
HasTable(t) == t \in startup.tables

\* ------------------------------------------------------------- the locks
\* SQLite's rollback-journal locking: a transaction that has read holds
\* SHARED, one that has written holds RESERVED; a write needs RESERVED to be
\* free, a commit needs every other connection to hold no lock at all.
OthersHold(o, kinds) == \E p \in Ops \ {o} : op[p].lock \in kinds

\* Mutant of CanCommit: a write commits whatever locks the others hold.
CanCommitAlways(o) == TRUE

\* Mutant of CanCommit: a commit does not wait for the readers.
CanCommitIgnoresReaders(o) == ~OthersHold(o, {"reserved"})

\* Mutant of CanCommit: only a transaction's COMMIT waits for the others, a
\* single statement commits at once.
CanCommitAutocommit(o) ==
    op[o].kind # "deleteUserWithLog" \/ ~OthersHold(o, {"shared", "reserved"})

CanRead(o) == TRUE
CanReserve(o) == ~OthersHold(o, {"reserved"})
CanCommit(o) == ~OthersHold(o, {"shared", "reserved"})

\* ----------------------------------------------------- values and errors
Null == [tag |-> "null"]
UserValue(u) == [tag |-> "user", user |-> u]
RowsValue(s) == [tag |-> "rows", rows |-> s]
DeletedValue(u, at) == [tag |-> "deleted", deleted |-> TRUE, user |-> u, deleted_at |-> at]
ErrorValue(code, stmt) == [tag |-> "error", code |-> code, stmt |-> stmt]

\* row || null
RowOrNull(rows) == IF rows = {} THEN Null ELSE UserValue(CHOOSE r \in rows : TRUE)

\* --------------------------------------------------------- a call's slot
Idle ==
    [kind |-> "none", pc |-> "idle", id |-> 0, email |-> "", name |-> "",
     createdAt |-> 0, userRow |-> {}, deletedAt |-> 0,
     lock |-> "none", txLog |-> {}, txDel |-> FALSE,
     status |-> "pending", value |-> Null, after |-> Null, trace |-> <<>>,
     param |-> <<>>, body |-> [tag |-> "none"], response |-> 0]

Free(o) == op[o].pc \in {"idle", "done"}
Running(o) == op[o].pc \notin {"idle", "settled", "done"}

\* const db = createDbConnection(): one new connection per call, and the
\* call's first statement is issued.
Opened(o, kind, pc, first) ==
    [Idle EXCEPT !.kind = kind, !.pc = pc, !.trace = <<"open", first>>]

\* History of the calls made back to back: slot o is called while no other
\* call is unsettled; recent then holds o, after the slot of the call made
\* just before it if that one too started with no other call unsettled.
NoteCall(o) ==
    recent' = IF \E p \in Ops \ {o} : Running(p) THEN <<>>
              ELSE IF recent # <<>> /\ recent[Len(recent)] # o
                   THEN <<recent[Len(recent)], o>>
                   ELSE <<o>>

Init ==
    /\ users = {}
    /\ log = {}
    /\ seqU = 0
    /\ seqL = 0
    /\ clock = 0
    /\ op = [o \in Ops |-> Idle]
    /\ nOpen = 0
    /\ nClose = 0
    /\ created = {}
    /\ removed = {}
    /\ touched = {}
    /\ recent = <<>>
    /\ startup = Started

\* Time passes between any two callbacks.
Tick ==
    /\ clock < MaxClock
    /\ clock' = clock + 1
    /\ UNCHANGED <<users, log, seqU, seqL, op, nOpen, nClose, created, removed, touched, recent, startup>>

\* What a callback does to its slot, in the order the code does it.
Emit(r, evs) == [r EXCEPT !.trace = @ \o evs]
Resolve(r, v) ==
    [Emit(r, <<"resolve">>) EXCEPT !.status = "resolved", !.value = v, !.pc = "settled"]
Reject(r, e) ==
    [Emit(r, <<"reject">>) EXCEPT !.status = "rejected", !.value = e, !.pc = "settled"]
\* db.close(): the connection gives up its lock and its open transaction.
Close(r) == [Emit(r, <<"close">>) EXCEPT !.lock = "none", !.txLog = {}, !.txDel = FALSE]

Closes(r) == Cardinality({i \in DOMAIN r.trace : r.trace[i] = "close"})
Settles(r) == Cardinality({i \in DOMAIN r.trace : r.trace[i] \in {"resolve", "reject"}})

\* The statement a callback answers, and what the store said.
Answer(r, ev) == Emit(r, <<ev>>)
Issue(r, stmt, pc) == [Emit(r, <<stmt>>) EXCEPT !.pc = pc]

\* ------------------------------------------------------------ createUser
\* Ids are bounded: a call is taken only while an id is left for it.
PendingInserts == Cardinality({p \in Ops : op[p].pc = "insert"})

CallCreateUser(o, email, name) ==
    /\ Listening
    /\ Free(o)
    /\ nOpen < MaxCalls
    /\ seqU + PendingInserts < MaxId
    /\ op' = [op EXCEPT ![o] = [Opened(o, "createUser", "insert", "INSERT")
                                  EXCEPT !.email = email, !.name = name,
                                         !.createdAt = clock]]
    /\ nOpen' = nOpen + 1
    /\ NoteCall(o)
    /\ UNCHANGED <<users, log, seqU, seqL, clock, nClose, created, removed, touched, startup>>

\* Mutant of CreateUserDone: the error path forgets db.close().
CreateUserDoneLeak(settledRec) ==
    IF settledRec.status = "rejected" THEN settledRec ELSE Close(settledRec)

\* resolve(newUser) / reject(err), then db.close()
CreateUserDone(settledRec) == Close(settledRec)

\* Mutant of NewUser: created_at is taken anew in the callback.
NewUserStamped(r, id) == UserRow(id, r.email, r.name, clock)

\* const newUser = { id: this.lastID, email, name, created_at: createdAt }
NewUser(r, id) == UserRow(id, r.email, r.name, r.createdAt)

\* Mutant of LastID: a plain rowid, one more than the largest id in the table.
LastIDRowid(tbl, seq) ==
    IF tbl = {} THEN 1 ELSE (CHOOSE i \in {r.id : r \in tbl} : \A r \in tbl : r.id <= i) + 1

\* this.lastID of the INSERT: id is AUTOINCREMENT, one more than the largest
\* id the table ever held (sqlite_sequence).
LastID(tbl, seq) == seq + 1

\* INSERT INTO users (email, name, created_at) VALUES (?, ?, ?)
InsertUserRows(tbl, id, email, name, createdAt) ==
    tbl \cup {UserRow(id, email, name, createdAt)}

CreateUserInsert(o) ==
    LET r == op[o] IN
    /\ r.kind = "createUser" /\ r.pc = "insert"
    /\ \/ \* the store fails the statement (I/O error, SQLITE_BUSY)
          /\ op' = [op EXCEPT ![o] = CreateUserDone(
                        Reject(Answer(r, "INSERT.fault"), ErrorValue("SQLITE_ERROR", "INSERT")))]
          /\ UNCHANGED <<users, seqU, created>>
       \/ \* UNIQUE(email) is violated
          /\ HasTable("users")
          /\ CanReserve(o)
          /\ EmailTaken(users, r.email, 0)
          /\ op' = [op EXCEPT ![o] = CreateUserDone(
                        Reject(Answer(r, "INSERT.constraint"), ErrorValue("SQLITE_CONSTRAINT", "INSERT")))]
          /\ UNCHANGED <<users, seqU, created>>
       \/ \* the row is inserted and committed; this.lastID is its id
          /\ HasTable("users")
          /\ CanReserve(o) /\ CanCommit(o)
          /\ ~EmailTaken(users, r.email, 0)
          /\ LET newUser == NewUser(r, LastID(users, seqU)) IN
             /\ users' = InsertUserRows(users, newUser.id, r.email, r.name, r.createdAt)
             /\ seqU' = LastID(users, seqU)
             /\ op' = [op EXCEPT ![o] = CreateUserDone(
                           Resolve(Answer(r, "INSERT.ok"), UserValue(newUser)))]
             /\ created' = created \cup {newUser}
    /\ nClose' = nClose + Closes(op'[o]) - Closes(r)
    /\ UNCHANGED <<log, seqL, clock, nOpen, removed, touched, recent, startup>>

\* ----------------------------------------------------------- getAllUsers
CallGetAllUsers(o) ==
    /\ Listening
    /\ Free(o)
    /\ nOpen < MaxCalls
    /\ op' = [op EXCEPT ![o] = Opened(o, "getAllUsers", "all", "SELECT")]
    /\ nOpen' = nOpen + 1
    /\ NoteCall(o)
    /\ UNCHANGED <<users, log, seqU, seqL, clock, nClose, created, removed, touched, startup>>

\* resolve(rows) / reject(err), then db.close()
GetAllUsersDone(settledRec) == Close(settledRec)

GetAllUsersSelect(o) ==
    LET r == op[o] IN
    /\ r.kind = "getAllUsers" /\ r.pc = "all"
    /\ \/ op' = [op EXCEPT ![o] = GetAllUsersDone(
                        Reject(Answer(r, "SELECT.fault"), ErrorValue("SQLITE_ERROR", "SELECT")))]
       \/ /\ HasTable("users")
          /\ CanRead(o)
          /\ op' = [op EXCEPT ![o] = GetAllUsersDone(
                        Resolve(Answer(r, "SELECT.ok"), RowsValue(OrderById(users))))]
    /\ nClose' = nClose + Closes(op'[o]) - Closes(r)
    /\ UNCHANGED <<users, log, seqU, seqL, clock, nOpen, created, removed, touched, recent, startup>>

\* ----------------------------------------------------------- getUserById
CallGetUserById(o, id) ==
    /\ Listening
    /\ Free(o)
    /\ nOpen < MaxCalls
    /\ op' = [op EXCEPT ![o] = [Opened(o, "getUserById", "get", "SELECT") EXCEPT !.id = id]]
    /\ nOpen' = nOpen + 1
    /\ NoteCall(o)
    /\ UNCHANGED <<users, log, seqU, seqL, clock, nClose, created, removed, touched, startup>>

\* resolve(row || null) / reject(err), then db.close()
GetUserByIdDone(settledRec) == Close(settledRec)

GetUserByIdSelect(o) ==
    LET r == op[o] IN
    /\ r.kind = "getUserById" /\ r.pc = "get"
    /\ \/ op' = [op EXCEPT ![o] = GetUserByIdDone(
                        Reject(Answer(r, "SELECT.fault"), ErrorValue("SQLITE_ERROR", "SELECT")))]
       \/ /\ HasTable("users")
          /\ CanRead(o)
          /\ op' = [op EXCEPT ![o] = GetUserByIdDone(
                        Resolve(Answer(r, "SELECT.ok"), RowOrNull(SelectById(users, r.id))))]
    /\ nClose' = nClose + Closes(op'[o]) - Closes(r)
    /\ UNCHANGED <<users, log, seqU, seqL, clock, nOpen, created, removed, touched, recent, startup>>

\* ------------------------------------------------------------ updateUser
CallUpdateUser(o, id, email, name) ==
    /\ Listening
    /\ Free(o)
    /\ nOpen < MaxCalls
    /\ op' = [op EXCEPT ![o] = [Opened(o, "updateUser", "update", "UPDATE")
                                  EXCEPT !.id = id, !.email = email, !.name = name]]
    /\ nOpen' = nOpen + 1
    /\ NoteCall(o)
    /\ touched' = touched \cup {id}
    /\ UNCHANGED <<users, log, seqU, seqL, clock, nClose, created, removed, startup>>

\* Mutant of UpdateUserAbsent: zero changed rows are reported as a failure.
UpdateUserAbsentRejects(r) == Reject(Close(r), ErrorValue("NOT_FOUND", "UPDATE"))

\* Mutant of UpdateUserFail: the `return` after reject(err) is missing.
UpdateUserFailFallsThrough(r, e) == Resolve(Reject(Close(r), e), Null)

\* db.close(); reject(err)   and   db.close(); resolve(null)
UpdateUserFail(r, e) == Reject(Close(r), e)
UpdateUserAbsent(r) == Resolve(Close(r), Null)

\* this.changes: the rows the UPDATE matched
Changes(tbl, id) == Cardinality(SelectById(tbl, id))

UpdateUserRun(o) ==
    LET r == op[o] IN
    /\ r.kind = "updateUser" /\ r.pc = "update"
    /\ \/ /\ op' = [op EXCEPT ![o] = UpdateUserFail(Answer(r, "UPDATE.fault"),
                                            ErrorValue("SQLITE_ERROR", "UPDATE"))]
          /\ UNCHANGED users
       \/ \* UNIQUE(email) is violated by the row the UPDATE rewrites
          /\ HasTable("users")
          /\ CanReserve(o)
          /\ Changes(users, r.id) # 0
          /\ EmailTaken(users, r.email, r.id)
          /\ op' = [op EXCEPT ![o] = UpdateUserFail(Answer(r, "UPDATE.constraint"),
                                            ErrorValue("SQLITE_CONSTRAINT", "UPDATE"))]
          /\ UNCHANGED users
       \/ \* if (this.changes === 0)
          /\ HasTable("users")
          /\ CanReserve(o)
          /\ Changes(users, r.id) = 0
          /\ op' = [op EXCEPT ![o] = UpdateUserAbsent(Answer(r, "UPDATE.ok"))]
          /\ UNCHANGED users
       \/ \* the row is rewritten and committed; the row is then read again
          /\ HasTable("users")
          /\ CanReserve(o) /\ CanCommit(o)
          /\ Changes(users, r.id) # 0
          /\ ~EmailTaken(users, r.email, r.id)
          /\ users' = UpdateRows(users, r.id, r.email, r.name)
          /\ op' = [op EXCEPT ![o] = Issue(Answer(r, "UPDATE.ok"), "SELECT", "reread")]
    /\ nClose' = nClose + Closes(op'[o]) - Closes(r)
    /\ UNCHANGED <<log, seqU, seqL, clock, nOpen, created, removed, touched, recent, startup>>

\* db.close(); then reject(err2) or resolve(row || null)
UpdateUserReread(r, rows) == Resolve(Close(r), RowOrNull(rows))

UpdateUserGet(o) ==
    LET r == op[o] IN
    /\ r.kind = "updateUser" /\ r.pc = "reread"
    /\ \/ op' = [op EXCEPT ![o] = UpdateUserFail(Answer(r, "SELECT.fault"),
                                         ErrorValue("SQLITE_ERROR", "SELECT"))]
       \/ /\ HasTable("users")
          /\ CanRead(o)
          /\ op' = [op EXCEPT ![o] = UpdateUserReread(Answer(r, "SELECT.ok"),
                                                      SelectById(users, r.id))]
    /\ nClose' = nClose + Closes(op'[o]) - Closes(r)
    /\ UNCHANGED <<users, log, seqU, seqL, clock, nOpen, created, removed, touched, recent, startup>>

\* ----------------------------------------------------- deleteUserWithLog
CallDeleteUserWithLog(o, id) ==
    /\ Listening
    /\ Free(o)
    /\ nOpen < MaxCalls
    /\ op' = [op EXCEPT ![o] = [Opened(o, "deleteUserWithLog", "begin", "BEGIN") EXCEPT !.id = id]]
    /\ nOpen' = nOpen + 1
    /\ NoteCall(o)
    /\ touched' = touched \cup {id}
    /\ UNCHANGED <<users, log, seqU, seqL, clock, nClose, created, removed, startup>>

\* Mutant of DeleteBeginFail: the BEGIN error path forgets db.close().
DeleteBeginFailLeak(r, e) == Reject(r, e)

\* Mutant of DeleteBeginFail: the BEGIN error path issues a ROLLBACK first.
DeleteBeginFailRollsBack(r, e) == [Issue(r, "ROLLBACK", "rollback") EXCEPT !.after = e]

\* BEGIN failed: db.close(); reject(err)
DeleteBeginFail(r, e) == Reject(Close(r), e)

\* Mutant of DeleteAbort: a failure after the log INSERT issues COMMIT.
DeleteAbortKeepsLog(r, outcome) ==
    IF r.txLog # {}
    THEN Issue(r, "COMMIT", "commit")
    ELSE [Issue(r, "ROLLBACK", "rollback") EXCEPT !.after = outcome]

\* A step failed, or the user is absent: db.run("ROLLBACK;", ...) is issued
\* and its callback will settle the promise with `outcome`.
DeleteAbort(r, outcome) == [Issue(r, "ROLLBACK", "rollback") EXCEPT !.after = outcome]

\* BEGIN TRANSACTION: a deferred transaction, it takes no lock yet.
DeleteBegin(o) ==
    LET r == op[o] IN
    /\ r.kind = "deleteUserWithLog" /\ r.pc = "begin"
    /\ \/ op' = [op EXCEPT ![o] = DeleteBeginFail(Answer(r, "BEGIN.fault"),
                                          ErrorValue("SQLITE_ERROR", "BEGIN"))]
       \/ op' = [op EXCEPT ![o] = Issue(Answer(r, "BEGIN.ok"), "SELECT", "select")]
    /\ nClose' = nClose + Closes(op'[o]) - Closes(r)
    /\ UNCHANGED <<users, log, seqU, seqL, clock, nOpen, created, removed, touched, recent, startup>>

\* Mutant of DeleteFound: the log INSERT is skipped.
DeleteFoundSkipsLog(r, rows, now) ==
    [Issue(r, "DELETE", "delete") EXCEPT !.userRow = rows, !.deletedAt = now]

\* const deletedAt = new Date().toISOString(); then the log INSERT is issued
DeleteFound(r, rows, now) ==
    [Issue(r, "INSERT", "insertLog") EXCEPT !.userRow = rows, !.deletedAt = now]

\* Step 1: SELECT the user inside the transaction.
DeleteSelect(o) ==
    LET r == op[o] IN
    /\ r.kind = "deleteUserWithLog" /\ r.pc = "select"
    /\ \/ op' = [op EXCEPT ![o] = DeleteAbort(Answer(r, "SELECT.fault"),
                                      ErrorValue("SQLITE_ERROR", "SELECT"))]
       \/ \* if (!userRow)
          /\ HasTable("users")
          /\ CanRead(o)
          /\ SelectById(users, r.id) = {}
          /\ op' = [op EXCEPT ![o] = DeleteAbort(
                        [Answer(r, "SELECT.ok") EXCEPT !.lock = "shared"], Null)]
       \/ /\ HasTable("users")
          /\ CanRead(o)
          /\ SelectById(users, r.id) # {}
          /\ op' = [op EXCEPT ![o] = DeleteFound(
                        [Answer(r, "SELECT.ok") EXCEPT !.lock = "shared"],
                        SelectById(users, r.id), clock)]
    /\ UNCHANGED <<users, log, seqU, seqL, clock, nOpen, nClose, created, removed, touched, recent, startup>>

\* The row the SELECT handed to the callback.
FetchedUser(r) == CHOOSE u \in r.userRow : TRUE

\* Mutant of LogInsert: deleted_at is taken anew when the row is written.
LogInsertStamped(r, nextId) ==
    {LogRow(nextId, FetchedUser(r).id, FetchedUser(r).email, clock)}

\* INSERT INTO user_deletions_log (user_id, email, deleted_at) VALUES
\*   (userRow.id, userRow.email, deletedAt)
LogInsert(r, nextId) == {LogRow(nextId, FetchedUser(r).id, FetchedUser(r).email, r.deletedAt)}

\* Step 2: the log row is written inside the transaction (uncommitted).
DeleteInsertLog(o) ==
    LET r == op[o] IN
    /\ r.kind = "deleteUserWithLog" /\ r.pc = "insertLog"
    /\ \/ op' = [op EXCEPT ![o] = DeleteAbort(Answer(r, "INSERT.fault"),
                                      ErrorValue("SQLITE_ERROR", "INSERT"))]
       \/ /\ HasTable("user_deletions_log")
          /\ CanReserve(o)
          /\ op' = [op EXCEPT ![o] = Issue(
                        [Answer(r, "INSERT.ok") EXCEPT !.lock = "reserved",
                                                       !.txLog = LogInsert(r, seqL + 1)],
                        "DELETE", "delete")]
    /\ UNCHANGED <<users, log, seqU, seqL, clock, nOpen, nClose, created, removed, touched, recent, startup>>

\* Step 3: DELETE FROM users WHERE id = ? inside the transaction.
DeleteDelete(o) ==
    LET r == op[o] IN
    /\ r.kind = "deleteUserWithLog" /\ r.pc = "delete"
    /\ \/ op' = [op EXCEPT ![o] = DeleteAbort(Answer(r, "DELETE.fault"),
                                      ErrorValue("SQLITE_ERROR", "DELETE"))]
       \/ /\ HasTable("users")
          /\ op' = [op EXCEPT ![o] = Issue([Answer(r, "DELETE.ok") EXCEPT !.txDel = TRUE],
                                           "COMMIT", "commit")]
    /\ UNCHANGED <<users, log, seqU, seqL, clock, nOpen, nClose, created, removed, touched, recent, startup>>

\* Mutant of CommitLog: the commit leaves only the transaction's own row.
CommitLogReplaces(tbl, r) == IF r.txLog = {} THEN tbl ELSE r.txLog

\* What COMMIT makes visible: the transaction's DELETE and its log INSERT.
CommitUsers(tbl, r) == IF r.txDel THEN DeleteRows(tbl, r.id) ELSE tbl
CommitLog(tbl, r) == tbl \cup r.txLog

\* Mutant of DeleteCommitFail: a failed COMMIT is reported as an absent user.
DeleteCommitFailAbsent(r, e) == Resolve(Close(r), Null)

\* db.close(); then reject(errCommit) or
\* resolve({ deleted: true, user: userRow, deleted_at: deletedAt })
DeleteCommitFail(r, e) == Reject(Close(r), e)
DeleteResult(r) == DeletedValue(FetchedUser(r), r.deletedAt)
DeleteCommitted(r) == Resolve(Close(r), DeleteResult(r))

DeleteCommit(o) ==
    LET r == op[o] IN
    /\ r.kind = "deleteUserWithLog" /\ r.pc = "commit"
    /\ \/ \* COMMIT fails: the transaction is still open and db.close() rolls it back
          /\ op' = [op EXCEPT ![o] = DeleteCommitFail(Answer(r, "COMMIT.fault"),
                                           ErrorValue("SQLITE_ERROR", "COMMIT"))]
          /\ UNCHANGED <<users, log, seqL, removed>>
       \/ /\ CanCommit(o)
          /\ users' = CommitUsers(users, r)
          /\ log' = CommitLog(log, r)
          /\ seqL' = seqL + Cardinality(r.txLog)
          /\ op' = [op EXCEPT ![o] = DeleteCommitted(Answer(r, "COMMIT.ok"))]
          /\ removed' = removed \cup {DeleteResult(r)}
    /\ nClose' = nClose + Closes(op'[o]) - Closes(r)
    /\ UNCHANGED <<seqU, clock, nOpen, created, touched, recent, startup>>

\* Mutant of DeleteRolledBack: the outcome is delivered before db.close().
DeleteRolledBackSettlesFirst(r) ==
    IF r.after.tag = "error" THEN Close(Reject(r, r.after)) ELSE Close(Resolve(r, Null))

\* The ROLLBACK callback ignores its own error: db.close(); then
\* reject(the step's error) or resolve(null).
DeleteRolledBack(r) ==
    IF r.after.tag = "error" THEN Reject(Close(r), r.after) ELSE Resolve(Close(r), Null)

DeleteRollback(o) ==
    LET r == op[o] IN
    /\ r.kind = "deleteUserWithLog" /\ r.pc = "rollback"
    /\ \/ op' = [op EXCEPT ![o] = DeleteRolledBack(Answer(r, "ROLLBACK.fault"))]
       \/ op' = [op EXCEPT ![o] = DeleteRolledBack(
                     [Answer(r, "ROLLBACK.ok") EXCEPT !.lock = "none", !.txLog = {}, !.txDel = FALSE])]
    /\ nClose' = nClose + Closes(op'[o]) - Closes(r)
    /\ UNCHANGED <<users, log, seqU, seqL, clock, nOpen, created, removed, touched, recent, startup>>

\* ------------------------------------------------------------ the caller
\* An Error the controller throws: error.statusCode = 400 / 404.
HttpError(statusCode) == [tag |-> "error", statusCode |-> statusCode]

\* const statusCode = err.statusCode || 500
StatusCode(err) == IF "statusCode" \in DOMAIN err THEN err.statusCode ELSE 500

\* What the controller's await hands to the server's handler: the rejection
\* of the repository as it is, an Error with statusCode 404 when
\* handleGetUserById, handleUpdateUser or handleDeleteUser got a falsy
\* result, the result otherwise.
Thrown(r) ==
    IF r.status = "rejected" THEN r.value
    ELSE IF r.kind \in {"getUserById", "updateUser", "deleteUserWithLog"} /\ r.value = Null
         THEN HttpError(404)
         ELSE Null

\* sendJson(res, 200 | 201, ...) or, in the catch, sendJson(res, statusCode, ...)
Response(r) ==
    IF Thrown(r) # Null THEN StatusCode(Thrown(r))
    ELSE IF r.kind = "createUser" THEN 201 ELSE 200

\* The caller's continuation (await) runs in a later microtask than the
\* callback that settled the promise.
Observe(o) ==
    /\ op[o].pc = "settled"
    /\ op' = [op EXCEPT ![o] = [Emit(op[o], <<"observe">>)
                                  EXCEPT !.pc = "done", !.response = Response(op[o])]]
    /\ UNCHANGED <<users, log, seqU, seqL, clock, nOpen, nClose, created, removed, touched, recent, startup>>

Next ==
    \/ Tick
    \/ \E o \in Ops, e \in Emails, n \in Names : CallCreateUser(o, e, n)
    \/ \E o \in Ops : CreateUserInsert(o)
    \/ \E o \in Ops : CallGetAllUsers(o)
    \/ \E o \in Ops : GetAllUsersSelect(o)
    \/ \E o \in Ops, i \in Ids : CallGetUserById(o, i)
    \/ \E o \in Ops : GetUserByIdSelect(o)
    \/ \E o \in Ops, i \in Ids, e \in Emails, n \in Names : CallUpdateUser(o, i, e, n)
    \/ \E o \in Ops : UpdateUserRun(o)
    \/ \E o \in Ops : UpdateUserGet(o)
    \/ \E o \in Ops, i \in Ids : CallDeleteUserWithLog(o, i)
    \/ \E o \in Ops : DeleteBegin(o)
    \/ \E o \in Ops : DeleteSelect(o)
    \/ \E o \in Ops : DeleteInsertLog(o)
    \/ \E o \in Ops : DeleteDelete(o)
    \/ \E o \in Ops : DeleteCommit(o)
    \/ \E o \in Ops : DeleteRollback(o)
    \/ \E o \in Ops : Observe(o)

Spec == Init /\ [][Next]_vars

\* ------------------------------------------------------ the server process
\* The process starts on a fresh store or on one a previous run has left.
InitServer ==
    /\ users = {}
    /\ log = {}
    /\ seqU = 0
    /\ seqL = 0
    /\ clock = 0
    /\ op = [o \in Ops |-> Idle]
    /\ nOpen = 0
    /\ nClose = 0
    /\ created = {}
    /\ removed = {}
    /\ touched = {}
    /\ recent = <<>>
    /\ \E t \in {{}, Tables} : startup = Process("load", "none", "none", <<>>, t)

\* The top-level statements of the server module, run in one go:
\* createDbConnection(), initializeDatabase(initDbConnection) which issues
\* the two CREATE TABLE statements and returns, setTimeout(close, 500),
\* http.createServer(...), server.listen(PORT, ...).
ServerLoad ==
    /\ startup.pc = "load"
    /\ startup' = Process("loaded", "opening", "set", CreateStatements, startup.tables)
    /\ nOpen' = nOpen + 1
    /\ UNCHANGED <<users, log, seqU, seqL, clock, op, nClose, created, removed, touched, recent>>

\* The schema connection is open: its callback logs, the queued statements
\* may run.
InitOpened ==
    /\ startup.db = "opening"
    /\ startup' = [startup EXCEPT !.db = "open"]
    /\ UNCHANGED <<users, log, seqU, seqL, clock, op, nOpen, nClose, created, removed, touched, recent>>

\* CREATE TABLE IF NOT EXISTS ..., in the order db.serialize gives them; the
\* callback logs the success or the error and nothing else.
InitCreateTable ==
    /\ startup.db = "open"
    /\ startup.queue # <<>>
    /\ \/ startup' = [startup EXCEPT !.queue = Tail(@)]
       \/ /\ \A p \in Ops : op[p].lock = "none"
          /\ startup' = [startup EXCEPT !.queue = Tail(@),
                                        !.tables = @ \cup {Head(startup.queue)}]
    /\ UNCHANGED <<users, log, seqU, seqL, clock, op, nOpen, nClose, created, removed, touched, recent>>

\* setTimeout(() => { initDbConnection.close(); }, 500)
InitTimer ==
    /\ startup.timer = "set"
    /\ startup' = [startup EXCEPT !.timer = "fired"]
    /\ nClose' = nClose + 1
    /\ UNCHANGED <<users, log, seqU, seqL, clock, op, nOpen, created, removed, touched, recent>>

\* The close takes effect once the statements issued before it have run.
InitClosed ==
    /\ startup.timer = "fired"
    /\ startup.db = "open"
    /\ startup.queue = <<>>
    /\ startup' = [startup EXCEPT !.db = "closed"]
    /\ UNCHANGED <<users, log, seqU, seqL, clock, op, nOpen, nClose, created, removed, touched, recent>>

\* The port is bound: from now on requests reach the handler of
\* http.createServer, which calls the repository through the controllers.
ServerListening ==
    /\ startup.pc = "loaded"
    /\ startup' = [startup EXCEPT !.pc = "listening"]
    /\ UNCHANGED <<users, log, seqU, seqL, clock, op, nOpen, nClose, created, removed, touched, recent>>

NextServer ==
    \/ ServerLoad
    \/ InitOpened
    \/ InitCreateTable
    \/ InitTimer
    \/ InitClosed
    \/ ServerListening
    \/ Next

SpecServer == InitServer /\ [][NextServer]_vars

\* ------------------------------------------------- a store that answers
\* The state after createUser({ email: "a@x.com", name: "A" }) has resolved
\* and its caller has gone on.
FirstUser == UserRow(1, "a@x.com", "A", 0)
FirstCall ==
    [Emit(CreateUserDone(Resolve(
        Answer([Opened(1, "createUser", "insert", "INSERT")
                   EXCEPT !.email = "a@x.com", !.name = "A", !.createdAt = 0],
               "INSERT.ok"),
        UserValue(FirstUser))), <<"observe">>) EXCEPT !.pc = "done"]

InitAnswering ==
    /\ users = {FirstUser}
    /\ log = {}
    /\ seqU = 1
    /\ seqL = 0
    /\ clock = 0
    /\ op = [o \in Ops |-> IF o = 1 THEN FirstCall ELSE Idle]
    /\ nOpen = 1
    /\ nClose = 1
    /\ created = {FirstUser}
    /\ removed = {}
    /\ touched = {}
    /\ recent = <<1>>
    /\ startup = Started

\* The store answers the statement the call in slot o waits for.
StoreAnswers(o) ==
    \/ CreateUserInsert(o)
    \/ GetAllUsersSelect(o)
    \/ GetUserByIdSelect(o)
    \/ UpdateUserRun(o)
    \/ UpdateUserGet(o)
    \/ DeleteBegin(o)
    \/ DeleteSelect(o)
    \/ DeleteInsertLog(o)
    \/ DeleteDelete(o)
    \/ DeleteCommit(o)
    \/ DeleteRollback(o)

\* Every statement issued is eventually answered, with a result or an error.
SpecAnswering ==
    InitAnswering /\ [][Next]_vars /\ \A o \in Ops : WF_vars(StoreAnswers(o))

\* ------------------------------------------------------- the controllers
\* The id parameter is the part of the URL after /users/, a string: here a
\* sequence of characters.  Number(idParam) for the signed decimal forms: the
\* empty string is 0, digits with an optional sign and an optional fraction
\* are that number, anything else is NaN.
DigitChars == <<"0", "1", "2", "3", "4", "5", "6", "7", "8", "9">>
IsDigit(c) == \E d \in DOMAIN DigitChars : DigitChars[d] = c
DigitValue(c) == (CHOOSE d \in DOMAIN DigitChars : DigitChars[d] = c) - 1
AllDigits(s) == \A i \in DOMAIN s : IsDigit(s[i])

RECURSIVE DigitsValue(_)
DigitsValue(s) ==
    IF s = <<>> THEN 0
    ELSE 10 * DigitsValue(SubSeq(s, 1, Len(s) - 1)) + DigitValue(s[Len(s)])

NaN == [nan |-> TRUE, whole |-> FALSE, val |-> 0]
Num(val, whole) == [nan |-> FALSE, whole |-> whole, val |-> val]

ToNumber(s) ==
    LET signed == s # <<>> /\ s[1] \in {"-", "+"}
        digits == IF signed THEN Tail(s) ELSE s
        sign == IF signed /\ s[1] = "-" THEN 0 - 1 ELSE 1
        dots == {i \in DOMAIN digits : digits[i] = "."}
    IN  IF s = <<>> THEN Num(0, TRUE)
        ELSE IF digits = <<>> THEN NaN
        ELSE IF AllDigits(digits) THEN Num(sign * DigitsValue(digits), TRUE)
        ELSE IF Cardinality(dots) = 1
             THEN LET d == CHOOSE i \in dots : TRUE
                      int == SubSeq(digits, 1, d - 1)
                      frac == SubSeq(digits, d + 1, Len(digits))
                  IN  IF AllDigits(int) /\ AllDigits(frac) /\ Len(int) + Len(frac) > 0
                      THEN Num(sign * DigitsValue(int), DigitsValue(frac) = 0)
                      ELSE NaN
             ELSE NaN

\* Mutant of ValidId: the test is idNumber < 0.
ValidIdNotNegative(n) == ~n.nan /\ n.whole /\ n.val >= 0

\* !(!Number.isInteger(idNumber) || idNumber <= 0)
ValidId(n) == ~n.nan /\ n.whole /\ n.val > 0

\* body && typeof body.email === "string" && typeof body.name === "string"
ValidBody(body) == body # Null

\* The id parameters requests carry: those that are a positive integer name
\* an id of Ids.
IdParams ==
    {<<"1">>, <<"2">>, <<"1", ".", "0">>, <<"0">>, <<"-", "1">>,
     <<"1", ".", "5">>, <<"a">>}
Bodies == {[email |-> e, name |-> "B"] : e \in Emails} \cup {Null}

\* const idNumber = Number(idParam)
IdNumber == [s \in IdParams |-> ToNumber(s)]

\* throw error (statusCode 400): the request is answered in the server's
\* catch and the repository is not called.  Refused requests open nothing,
\* so MaxCalls does not bound them: a refused request takes a slot no call
\* has used yet.
Refused(o, kind, idParam, body) ==
    /\ Listening
    /\ op[o].pc = "idle"
    /\ op' = [op EXCEPT ![o] = [Idle EXCEPT !.kind = kind, !.pc = "done",
                                           !.param = idParam, !.body = body,
                                           !.response = StatusCode(HttpError(400))]]
    /\ UNCHANGED <<users, log, seqU, seqL, clock, nOpen, nClose, created, removed, touched, recent, startup>>

HandleGetUserById(o, idParam) ==
    IF ValidId(IdNumber[idParam])
    THEN /\ Listening /\ Free(o) /\ nOpen < MaxCalls
         /\ op' = [op EXCEPT ![o] = [Opened(o, "getUserById", "get", "SELECT")
                                       EXCEPT !.id = IdNumber[idParam].val, !.param = idParam]]
         /\ nOpen' = nOpen + 1
         /\ NoteCall(o)
         /\ UNCHANGED <<users, log, seqU, seqL, clock, nClose, created, removed, touched, startup>>
    ELSE Refused(o, "getUserById", idParam, [tag |-> "none"])

HandleUpdateUser(o, idParam, body) ==
    IF ValidId(IdNumber[idParam]) /\ ValidBody(body)
    THEN /\ Listening /\ Free(o) /\ nOpen < MaxCalls
         /\ op' = [op EXCEPT ![o] = [Opened(o, "updateUser", "update", "UPDATE")
                                       EXCEPT !.id = IdNumber[idParam].val,
                                              !.email = body.email, !.name = body.name,
                                              !.param = idParam, !.body = body]]
         /\ nOpen' = nOpen + 1
         /\ NoteCall(o)
         /\ touched' = touched \cup {IdNumber[idParam].val}
         /\ UNCHANGED <<users, log, seqU, seqL, clock, nClose, created, removed, startup>>
    ELSE Refused(o, "updateUser", idParam, body)

HandleDeleteUser(o, idParam) ==
    IF ValidId(IdNumber[idParam])
    THEN /\ Listening /\ Free(o) /\ nOpen < MaxCalls
         /\ op' = [op EXCEPT ![o] = [Opened(o, "deleteUserWithLog", "begin", "BEGIN")
                                       EXCEPT !.id = IdNumber[idParam].val, !.param = idParam]]
         /\ nOpen' = nOpen + 1
         /\ NoteCall(o)
         /\ touched' = touched \cup {IdNumber[idParam].val}
         /\ UNCHANGED <<users, log, seqU, seqL, clock, nClose, created, removed, startup>>
    ELSE Refused(o, "deleteUserWithLog", idParam, [tag |-> "none"])

NextController ==
    \/ Tick
    \/ \E o \in Ops, e \in Emails, n \in Names : CallCreateUser(o, e, n)
    \/ \E o \in Ops : CallGetAllUsers(o)
    \/ \E o \in Ops, s \in IdParams : HandleGetUserById(o, s)
    \/ \E o \in Ops, s \in IdParams, b \in Bodies : HandleUpdateUser(o, s, b)
    \/ \E o \in Ops, s \in IdParams : HandleDeleteUser(o, s)
    \/ \E o \in Ops : StoreAnswers(o)
    \/ \E o \in Ops : Observe(o)

SpecController == InitAnswering /\ [][NextController]_vars

\* ------------------------------------------------------- a store in use
\* The server is up on the data/app.db an earlier run has left: user 1
\* (a@x.com) was created and deleted then, so the log holds its row and both
\* sequences stand at 1.
InitRestart ==
    /\ users = {}
    /\ log = {LogRow(1, 1, "a@x.com", 0)}
    /\ seqU = 1
    /\ seqL = 1
    /\ clock = 0
    /\ op = [o \in Ops |-> Idle]
    /\ nOpen = 0
    /\ nClose = 0
    /\ created = {}
    /\ removed = {}
    /\ touched = {}
    /\ recent = <<>>
    /\ startup = Started

SpecRestart == InitRestart /\ [][Next]_vars

\* ------------------------------------------------- an unreachable store
\* The runs in which data/app.db cannot be opened (the directory is missing
\* or not writable): createDbConnection() returns the db object all the
\* same, the call issues its first statement on it, and the callback of
\* new sqlite3.Database gets the error and logs it.
OpenFailure(r) == [Emit(r, <<"open.fault">>) EXCEPT !.pc = "unopened"]

OpenFailed(o) ==
    /\ Running(o)
    /\ Len(op[o].trace) = 2
    /\ op' = [op EXCEPT ![o] = OpenFailure(op[o])]
    /\ UNCHANGED <<users, log, seqU, seqL, clock, nOpen, nClose, created, removed, touched, recent, startup>>

\* The statement issued on the connection that failed to open.  Whether the
\* driver ever calls its callback is not in the source: the callback may
\* never run (this action is not taken), or it runs with an error and the
\* call takes the error path of its first statement.
StatementError(r) ==
    CASE r.kind = "createUser" ->
           CreateUserDone(Reject(Answer(r, "INSERT.fault"), ErrorValue("SQLITE_MISUSE", "INSERT")))
      [] r.kind = "getAllUsers" ->
           GetAllUsersDone(Reject(Answer(r, "SELECT.fault"), ErrorValue("SQLITE_MISUSE", "SELECT")))
      [] r.kind = "getUserById" ->
           GetUserByIdDone(Reject(Answer(r, "SELECT.fault"), ErrorValue("SQLITE_MISUSE", "SELECT")))
      [] r.kind = "updateUser" ->
           UpdateUserFail(Answer(r, "UPDATE.fault"), ErrorValue("SQLITE_MISUSE", "UPDATE"))
      [] r.kind = "deleteUserWithLog" ->
           DeleteBeginFail(Answer(r, "BEGIN.fault"), ErrorValue("SQLITE_MISUSE", "BEGIN"))

QueuedStatementFails(o) ==
    /\ op[o].pc = "unopened"
    /\ op' = [op EXCEPT ![o] = StatementError(op[o])]
    /\ nClose' = nClose + Closes(op'[o]) - Closes(op[o])
    /\ UNCHANGED <<users, log, seqU, seqL, clock, nOpen, created, removed, touched, recent, startup>>

NextUnreachable ==
    \/ Tick
    \/ \E o \in Ops, e \in Emails, n \in Names : CallCreateUser(o, e, n)
    \/ \E o \in Ops : CallGetAllUsers(o)
    \/ \E o \in Ops, i \in Ids : CallGetUserById(o, i)
    \/ \E o \in Ops, i \in Ids, e \in Emails, n \in Names : CallUpdateUser(o, i, e, n)
    \/ \E o \in Ops, i \in Ids : CallDeleteUserWithLog(o, i)
    \/ \E o \in Ops : OpenFailed(o)
    \/ \E o \in Ops : QueuedStatementFails(o)
    \/ \E o \in Ops : Observe(o)

SpecUnreachable == Init /\ [][NextUnreachable]_vars

\* ================================================================ claims
Settled(o) == op[o].pc \in {"settled", "done"}
Has(tr, ev) == \E i \in DOMAIN tr : tr[i] = ev
Pos(tr, ev) == CHOOSE i \in DOMAIN tr : tr[i] = ev
\* In this step the callback of slot o got the answer ev from the store.
Answered(o, ev) ==
    /\ Len(op'[o].trace) > Len(op[o].trace)
    /\ op'[o].trace[Len(op[o].trace) + 1] = ev
\* This step is a step of the call running in slot o.
StepOf(o, kind) == op[o].kind = kind /\ Running(o) /\ op'[o] # op[o]

\* What one step of a deleteUserWithLog call may do to the two tables, and
\* what a settled call may still hold.
C1_DeleteStep ==
    \A o \in Ops : StepOf(o, "deleteUserWithLog") =>
        \/ users' = users /\ log' = log
        \/ /\ op'[o].status = "resolved" /\ op'[o].value.tag = "deleted"
           /\ \E u \in users :
                 /\ u.id = op[o].id
                 /\ users' = users \ {u}
                 /\ \E l \in log' \ log :
                       /\ log' = log \cup {l}
                       /\ l.user_id = u.id /\ l.email = u.email
C1_NothingPending ==
    \A o \in Ops : Settled(o) => op[o].txLog = {} /\ ~op[o].txDel /\ op[o].lock = "none"

\* C1: every step of a deleteUserWithLog call leaves users and
\* user_deletions_log as they are, except the one step in which the call
\* resolves with deleted: true, which removes exactly the user's row and adds
\* exactly one log row for it; a call that has settled holds no uncommitted
\* change.  So a call that failed at BEGIN, SELECT, INSERT, DELETE or COMMIT,
\* or found no user, has changed neither table.
C1_Atomicity == [][C1_DeleteStep /\ C1_NothingPending']_vars

\* C1 witness: the DELETE step failed after the log INSERT succeeded, the
\* call has settled, and the log holds no row.
C1_Witness ==
    \E o \in Ops :
        /\ op[o].kind = "deleteUserWithLog" /\ Settled(o)
        /\ Has(op[o].trace, "INSERT.ok") /\ Has(op[o].trace, "DELETE.fault")
        /\ log = {} /\ users # {}

\* C2: for every result deleteUserWithLog resolved with, exactly one log row
\* has the returned user's id and email, and its deleted_at is the returned
\* deleted_at.
C2_AuditPairing ==
    \A d \in removed :
        LET rows == {l \in log : l.user_id = d.user.id /\ l.email = d.user.email}
        IN  /\ Cardinality(rows) = 1
            /\ \A l \in rows : l.deleted_at = d.deleted_at

\* C2 witness: a user was removed at a time later than the store's first instant.
C2_Witness == \E d \in removed : d.deleted_at = MaxClock /\ d.user.created_at < d.deleted_at

\* C3: a call that has settled has closed its connection exactly once, a call
\* that has not settled has not closed it, and whenever no call is running
\* the number of opens equals the number of closes.
C3_OpenClose ==
    /\ \A o \in Ops : Settled(o) => Closes(op[o]) = 1
    /\ \A o \in Ops : Running(o) => Closes(op[o]) = 0
    /\ (\A o \in Ops : ~Running(o)) => nOpen = nClose

\* C3 witness: all calls have settled, one of them a delete whose ROLLBACK failed.
C3_Witness ==
    /\ nOpen = MaxCalls /\ nClose = MaxCalls
    /\ \A o \in Ops : Settled(o)
    /\ \E o \in Ops : Has(op[o].trace, "ROLLBACK.fault")

\* The steps that find no row for the id.
C4_Step ==
    \A o \in Ops :
        /\ (StepOf(o, "getUserById") /\ Answered(o, "SELECT.ok")
              /\ SelectById(users, op[o].id) = {})
             => op'[o].status = "resolved" /\ op'[o].value = Null
                /\ users' = users /\ log' = log
        /\ (StepOf(o, "updateUser") /\ op[o].pc = "update" /\ Answered(o, "UPDATE.ok")
              /\ SelectById(users, op[o].id) = {})
             => op'[o].status = "resolved" /\ op'[o].value = Null
                /\ users' = users /\ log' = log
        /\ (StepOf(o, "deleteUserWithLog") /\ op[o].pc = "select" /\ Answered(o, "SELECT.ok")
              /\ SelectById(users, op[o].id) = {})
             => op'[o].pc = "rollback" /\ op'[o].after = Null
                /\ users' = users /\ log' = log
        /\ (StepOf(o, "deleteUserWithLog") /\ op[o].pc = "rollback" /\ op[o].after = Null)
             => op'[o].status = "resolved" /\ op'[o].value = Null
                /\ users' = users /\ log' = log

\* C4: when the store answers without a fault and no users row has the id,
\* getUserById and updateUser resolve with null in that step, and
\* deleteUserWithLog issues ROLLBACK and then resolves with null whatever the
\* ROLLBACK answers; none of these steps changes users or the log.
C4_NotFound == [][C4_Step]_vars

\* C4 witness: a delete of an id no row has resolved with null while another
\* user exists.
C4_Witness ==
    \E o \in Ops :
        /\ op[o].kind = "deleteUserWithLog" /\ Settled(o)
        /\ op[o].status = "resolved" /\ op[o].value = Null
        /\ users # {} /\ SelectById(users, op[o].id) = {}

\* The users createUser has returned, and the INSERT of a taken email.
C5_Results ==
    \A u, v \in created :
        (u # v /\ u.email = v.email) => (u.id \in touched \/ v.id \in touched)
C5_Step ==
    \A o \in Ops :
        (StepOf(o, "createUser") /\ EmailTaken(users, op[o].email, 0)) =>
            /\ op'[o].status = "rejected"
            /\ users' = users /\ created' = created /\ seqU' = seqU
            /\ ~Answered(o, "INSERT.fault") => op'[o].value.code = "SQLITE_CONSTRAINT"

\* C5: two users returned by successful createUser calls have the same email
\* only if updateUser or deleteUserWithLog was called on one of them (so in a
\* sequence of createUser calls alone no two results share an email); and an
\* INSERT of an email a live user holds rejects the call and leaves users
\* unchanged, with the constraint error when the store raised no fault.
C5_CreateUnique == [][C5_Step /\ C5_Results']_vars

\* C5 witness: a second createUser with a live user's email was rejected with
\* the constraint error.
C5_Witness ==
    \E o \in Ops :
        /\ op[o].kind = "createUser" /\ Settled(o) /\ op[o].status = "rejected"
        /\ op[o].value.code = "SQLITE_CONSTRAINT"
        /\ \E u \in users : u.email = op[o].email

\* The UNIQUE(email) state of users, and the UPDATE to a taken email.
C6_Unique == \A r, q \in users : (r.email = q.email \/ r.id = q.id) => r = q
C6_Step ==
    \A o \in Ops :
        (StepOf(o, "updateUser") /\ op[o].pc = "update"
          /\ EmailTaken(users, op[o].email, op[o].id)
          /\ SelectById(users, op[o].id) # {}) =>
            op'[o].status = "rejected" /\ users' = users

\* C6: no two rows of users have the same email (or the same id) in any
\* reachable state; an UPDATE that would give a row the email of another
\* live row rejects the call and changes no row.
C6_EmailInvariant == [][C6_Step /\ C6_Unique']_vars

\* C6 witness: two users exist and an updateUser that asked for the other
\* one's email was rejected with the constraint error.
C6_Witness ==
    \E o \in Ops :
        /\ op[o].kind = "updateUser" /\ Settled(o) /\ op[o].status = "rejected"
        /\ op[o].value.code = "SQLITE_CONSTRAINT"
        /\ Cardinality(users) = 2

\* The step in which getUserById gets its row.
C7_Step ==
    \A o \in Ops :
        (StepOf(o, "getUserById") /\ Answered(o, "SELECT.ok")
          /\ op[o].id \notin touched
          /\ \E u \in created : u.id = op[o].id) =>
            /\ op'[o].status = "resolved"
            /\ \E u \in created : u.id = op[o].id /\ op'[o].value = UserValue(u)

\* C7: when getUserById(id) gets its answer from the store, createUser has
\* returned a user u with that id and no updateUser or deleteUserWithLog was
\* ever called with the id, the call resolves with a user equal to u in id,
\* email, name and created_at.
C7_RoundTrip == [][C7_Step]_vars

\* C7 witness: a getUserById resolved with a created, untouched user whose
\* INSERT ran later than the createUser call took its timestamp.
C7_Witness ==
    \E o \in Ops :
        /\ op[o].kind = "getUserById" /\ Settled(o) /\ op[o].status = "resolved"
        /\ op[o].id \notin touched
        /\ op[o].value \in {UserValue(u) : u \in created}
        /\ clock = MaxClock /\ op[o].value.user.created_at < clock

\* Slot o runs the call made right after the identical call of slot p.
SameUpdate(p, o) ==
    /\ recent = <<p, o>>
    /\ op[p].kind = "updateUser" /\ op[o].kind = "updateUser"
    /\ op[p].id = op[o].id /\ op[p].email = op[o].email /\ op[p].name = op[o].name
    /\ Settled(p) /\ op[p].status = "resolved" /\ op[p].value.tag = "user"
C8_Results ==
    \A p, o \in Ops :
        (SameUpdate(p, o) /\ Settled(o)) =>
            /\ op[o].status = "resolved" => op[o].value = op[p].value
            /\ op[o].status = "rejected" => op[o].value.code = "SQLITE_ERROR"
C8_Step ==
    \A p, o \in Ops :
        (SameUpdate(p, o) /\ StepOf(o, "updateUser")) => users' = users /\ log' = log

\* C8: updateUser called twice one after the other with the same arguments,
\* no other call in between or alongside, the first having returned a user:
\* no step of the second call changes users or the log, a second call that
\* resolves returns the user the first returned, and it is rejected only on a
\* fault of the store.
C8_UpdateIdempotent == [][C8_Step /\ C8_Results']_vars

\* C8 witness: both calls have resolved, the second at a later time than the
\* first, with a name and an email other than the created ones.
C8_Witness ==
    \E p, o \in Ops :
        /\ SameUpdate(p, o) /\ Settled(o) /\ op[o].status = "resolved"
        /\ clock = MaxClock
        /\ \E u \in created : u.id = op[o].id /\ u.email # op[o].email /\ u.name # op[o].name

\* The statements of the workflow and the answers that report their success.
Workflow == <<"BEGIN", "SELECT", "INSERT", "DELETE", "COMMIT">>
Succeeded == <<"BEGIN.ok", "SELECT.ok", "INSERT.ok", "DELETE.ok", "COMMIT.ok">>
IsStatement(ev) == \E k \in DOMAIN Workflow : Workflow[k] = ev

\* C9: in every deleteUserWithLog call the statements issued are, in this
\* order and each at most once, a prefix of BEGIN, SELECT, INSERT, DELETE,
\* COMMIT; each one after BEGIN is issued right after the previous one's
\* success was reported; and the call resolves with deleted: true only after
\* all five succeeded.
C9_Order ==
    \A o \in Ops : op[o].kind = "deleteUserWithLog" =>
        LET tr == op[o].trace
            issued == SelectSeq(tr, IsStatement)
        IN  /\ Len(issued) <= Len(Workflow)
            /\ \A k \in DOMAIN issued : issued[k] = Workflow[k]
            /\ \A i \in DOMAIN tr : \A k \in 2..Len(Workflow) :
                  tr[i] = Workflow[k] => tr[i - 1] = Succeeded[k - 1]
            /\ op[o].value.tag = "deleted" =>
                  \A k \in DOMAIN Succeeded :
                      /\ Has(tr, Succeeded[k])
                      /\ Pos(tr, Succeeded[k]) < Pos(tr, "resolve")

\* C9 witness: a delete went through all five statements and resolved.
C9_Witness ==
    \E o \in Ops :
        /\ op[o].kind = "deleteUserWithLog" /\ op[o].value.tag = "deleted"
        /\ Has(op[o].trace, "COMMIT.ok")

\* C10 as stated: in createUser, getAllUsers, getUserById and updateUser the
\* promise is settled only after db.close() was called.
C10_SettledAfterClose ==
    \A o \in Ops :
        (op[o].kind \in {"createUser", "getAllUsers", "getUserById", "updateUser"}
          /\ Settled(o)) =>
            /\ Has(op[o].trace, "close")
            /\ \A i \in DOMAIN op[o].trace :
                  op[o].trace[i] \in {"resolve", "reject"} => Pos(op[o].trace, "close") < i

\* C10 as amended: in these four operations db.close() is called exactly once
\* in the callback that settles the promise, hence before the caller's
\* continuation observes the result or the failure; updateUser calls it
\* before settling, the other three right after settling.
C10_ClosedBeforeObserved ==
    \A o \in Ops :
        LET tr == op[o].trace IN
        (op[o].kind \in {"createUser", "getAllUsers", "getUserById", "updateUser"}
          /\ Settled(o)) =>
            /\ Closes(op[o]) = 1
            /\ Has(tr, "observe") => Pos(tr, "close") < Pos(tr, "observe")
            /\ \A i \in DOMAIN tr : tr[i] \in {"resolve", "reject"} =>
                  IF op[o].kind = "updateUser"
                  THEN Pos(tr, "close") = i - 1
                  ELSE Pos(tr, "close") = i + 1

\* C10 witness: the caller has observed the failure of a createUser and the
\* result of an updateUser.
C10_Witness ==
    \E o, p \in Ops :
        /\ op[o].kind = "createUser" /\ op[o].status = "rejected" /\ op[o].pc = "done"
        /\ op[p].kind = "updateUser" /\ op[p].status = "resolved" /\ op[p].pc = "done"

\* C11: a deleteUserWithLog call whose COMMIT failed got there after BEGIN,
\* SELECT, INSERT and DELETE succeeded; it is rejected with the COMMIT's
\* error (so it resolves neither with deleted: true nor with null), it has
\* called db.close() exactly once, before rejecting, and its connection
\* holds no lock and no uncommitted change.
C11_CommitFailure ==
    \A o \in Ops :
        (op[o].kind = "deleteUserWithLog" /\ Has(op[o].trace, "COMMIT.fault")) =>
            LET tr == op[o].trace IN
            /\ \A k \in 1..4 : Has(tr, Succeeded[k]) /\ Pos(tr, Succeeded[k]) < Pos(tr, "COMMIT.fault")
            /\ Settled(o) /\ op[o].status = "rejected"
            /\ op[o].value = ErrorValue("SQLITE_ERROR", "COMMIT")
            /\ op[o].value.tag \notin {"deleted", "null"}
            /\ ~Has(tr, "resolve")
            /\ Closes(op[o]) = 1 /\ Pos(tr, "close") < Pos(tr, "reject")
            /\ op[o].lock = "none" /\ op[o].txLog = {} /\ ~op[o].txDel

\* C11 witness: the caller has observed the rejection of a delete whose
\* COMMIT failed, and the user is still there.
C11_Witness ==
    \E o \in Ops :
        /\ op[o].kind = "deleteUserWithLog" /\ op[o].pc = "done"
        /\ Has(op[o].trace, "COMMIT.fault")
        /\ SelectById(users, op[o].id) # {}

\* The answers by which the store reports an error of a statement.
ErrorAnswers ==
    {"BEGIN.fault", "SELECT.fault", "INSERT.fault", "INSERT.constraint",
     "UPDATE.fault", "UPDATE.constraint", "DELETE.fault", "COMMIT.fault",
     "ROLLBACK.fault"}

\* C12 as stated: a settled call one of whose statements (ROLLBACK included)
\* reported an error is rejected; and a deleteUserWithLog call rejected after
\* its BEGIN succeeded issued ROLLBACK before it rejected.
C12_NeverSwallows ==
    \A o \in Ops : Settled(o) =>
        LET tr == op[o].trace IN
        /\ (\E i \in DOMAIN tr : tr[i] \in ErrorAnswers) => op[o].status = "rejected"
        /\ (op[o].kind = "deleteUserWithLog" /\ op[o].status = "rejected"
              /\ Has(tr, "BEGIN.ok"))
             => Has(tr, "ROLLBACK") /\ Pos(tr, "ROLLBACK") < Pos(tr, "reject")

\* The UPDATE of the call in slot o affected a row: only then does the
\* callback issue the SELECT that reads the row again.
UpdateAffectedRow(o) == op[o].kind = "updateUser" /\ Has(op[o].trace, "SELECT")

\* C13 as stated: an updateUser call that resolves returns null only when its
\* UPDATE affected no row, and when the UPDATE affected a row it returns the
\* row of the given id carrying the email and the name it was called with,
\* whatever other calls ran between the UPDATE and the SELECT.
C13_UpdateResult ==
    \A o \in Ops :
        (op[o].kind = "updateUser" /\ Settled(o) /\ op[o].status = "resolved") =>
            IF UpdateAffectedRow(o)
            THEN /\ op[o].value.tag = "user"
                 /\ op[o].value.user.id = op[o].id
                 /\ op[o].value.user.email = op[o].email
                 /\ op[o].value.user.name = op[o].name
            ELSE op[o].value = Null

\* The step in which getAllUsers gets its rows.
C14_Step ==
    \A o \in Ops :
        (StepOf(o, "getAllUsers") /\ Answered(o, "SELECT.ok")) =>
            /\ op'[o].status = "resolved" /\ op'[o].value.tag = "rows"
            /\ LET rows == op'[o].value.rows IN
               /\ {rows[i] : i \in DOMAIN rows} = users
               /\ Len(rows) = Cardinality(users)
               /\ \A i, j \in DOMAIN rows : i < j => rows[i].id < rows[j].id
               /\ users = {} => rows = <<>>
            /\ users' = users

\* C14: when the store answers the SELECT of getAllUsers, the call resolves
\* with a sequence that holds exactly the rows users has at that moment, each
\* once, in strictly ascending order of id; on an empty table it resolves
\* with the empty sequence.  (It is rejected only on a fault of the store.)
C14_ListAll == [][C14_Step]_vars

\* C14 witness: getAllUsers has resolved with two rows.
C14_Witness ==
    \E o \in Ops :
        /\ op[o].kind = "getAllUsers" /\ Settled(o) /\ op[o].status = "resolved"
        /\ Len(op[o].value.rows) = 2

\* The ids of the users deleteUserWithLog has returned so far.
RemovedIds == {d.user.id : d \in removed}

\* The step that commits a deletion, and the reads that come after it.
C15_Step ==
    \A o \in Ops :
        /\ (StepOf(o, "deleteUserWithLog") /\ Answered(o, "COMMIT.ok")) =>
              /\ op'[o].status = "resolved" /\ op'[o].value.tag = "deleted"
              /\ op'[o].value.user.id = op[o].id
              /\ op'[o].value.user \in users
              /\ users' = users \ {op'[o].value.user}
              /\ SelectById(users', op[o].id) = {}
        /\ (StepOf(o, "getUserById") /\ Answered(o, "SELECT.ok")
              /\ op[o].id \in RemovedIds) =>
              op'[o].status = "resolved" /\ op'[o].value = Null
        /\ (StepOf(o, "getAllUsers") /\ Answered(o, "SELECT.ok")) =>
              \A i \in DOMAIN op'[o].value.rows :
                  op'[o].value.rows[i].id \notin RemovedIds

\* C15: in the step in which deleteUserWithLog(id) resolves with
\* deleted: true, the returned user is the row users held for id just before
\* that step, and the step removes exactly that row; every getUserById(id)
\* the store answers afterwards resolves with null and every getAllUsers
\* answered afterwards holds no row with that id.
C15_DeleteResult == [][C15_Step]_vars

\* C15 witness: a user was deleted and the caller of a later getUserById of
\* its id has observed null.
C15_Witness ==
    \E o \in Ops :
        /\ op[o].kind = "getUserById" /\ op[o].pc = "done"
        /\ op[o].status = "resolved" /\ op[o].value = Null
        /\ op[o].id \in RemovedIds

\* C16 as stated: whenever a repository call has been made, both tables
\* exist and the CREATE TABLE statements issued at start-up have run.
C16_SchemaFirst ==
    (\E o \in Ops : op[o].kind # "none") =>
        /\ Tables \subseteq startup.tables
        /\ startup.db \in {"open", "closed"} /\ startup.queue = <<>>

\* What any step may do to the rows that stay, and what a step of updateUser
\* may do at all.
C17_Step ==
    /\ \A u \in users : \A v \in users' : v.id = u.id => v.created_at = u.created_at
    /\ \A o \in Ops : StepOf(o, "updateUser") =>
          /\ log' = log /\ seqL' = seqL /\ seqU' = seqU
          /\ {v.id : v \in users'} = {u.id : u \in users}
          /\ \A u \in users : u.id # op[o].id => u \in users'
          /\ \A u \in users : \A v \in users' :
                (v.id = u.id /\ v # u) =>
                    v = [u EXCEPT !.email = op[o].email, !.name = op[o].name]

\* C17: no step changes the created_at of a row that keeps its id, so a user
\* has the same id and created_at from the step that inserts it to the step
\* that deletes it; and a step of updateUser leaves the log, the set of ids
\* and every row of another id as they are, and changes in the row of its id
\* at most email and name, to the values it was called with.
C17_UpdateFrame == [][C17_Step]_vars

\* C17 witness: of two users one has been updated, at a time later than its
\* creation, to an email and a name other than the created ones.
C17_Witness ==
    \E o \in Ops :
        /\ op[o].kind = "updateUser" /\ Settled(o) /\ op[o].status = "resolved"
        /\ op[o].value.tag = "user"
        /\ Cardinality(users) = 2
        /\ op[o].value.user \in users
        /\ \E u \in created : /\ u.id = op[o].id
                              /\ u.email # op[o].email /\ u.name # op[o].name

\* The step in which createUser gets the id of its new row.
C18_Step ==
    \A o \in Ops :
        (StepOf(o, "createUser") /\ Answered(o, "INSERT.ok")) =>
            /\ op'[o].status = "resolved" /\ op'[o].value.tag = "user"
            /\ op'[o].value.user.id \notin {u.id : u \in created}
            /\ op'[o].value.user.id \notin RemovedIds
            /\ op'[o].value.user.id \notin {u.id : u \in users}
            /\ op'[o].value.user.id > seqU

\* C18: the id a successful createUser returns is the id of no user returned
\* by an earlier createUser, of no user deleteUserWithLog has removed and of
\* no row of users; it is greater than every id handed out before.
C18_NoIdReuse == [][C18_Step]_vars

\* C18 witness: a user was created, then deleted, and the createUser called
\* after the delete had been observed returned another id.
C18_Witness ==
    \E p, o \in Ops :
        /\ recent = <<p, o>>
        /\ op[p].kind = "deleteUserWithLog" /\ op[p].value.tag = "deleted"
        /\ op[o].kind = "createUser" /\ Settled(o) /\ op[o].status = "resolved"
        /\ op[o].value.user.id # op[p].value.user.id
        /\ users = {op[o].value.user}

\* The step in which BEGIN fails, and what the call does afterwards.
C20_Step ==
    \A o \in Ops :
        /\ (StepOf(o, "deleteUserWithLog") /\ Answered(o, "BEGIN.fault")) =>
              /\ op'[o].trace = op[o].trace \o <<"BEGIN.fault", "close", "reject">>
              /\ op'[o].status = "rejected"
              /\ op'[o].value = ErrorValue("SQLITE_ERROR", "BEGIN")
              /\ op'[o].lock = "none" /\ op'[o].txLog = {} /\ ~op'[o].txDel
              /\ users' = users /\ log' = log /\ seqU' = seqU /\ seqL' = seqL
        /\ (op[o].kind = "deleteUserWithLog" /\ Has(op[o].trace, "BEGIN.fault")
              /\ op[o].pc = "settled" /\ op'[o] # op[o]) =>
              /\ op'[o].trace = op[o].trace \o <<"observe">>
              /\ op'[o].status = op[o].status /\ op'[o].value = op[o].value
              /\ users' = users /\ log' = log

\* C20: in the step in which the BEGIN of deleteUserWithLog fails the call
\* calls db.close() and rejects with the BEGIN's error, and changes neither
\* table; all the call's trace gets afterwards is the caller's observation:
\* no SELECT, INSERT, DELETE, COMMIT or ROLLBACK is issued.
C20_BeginFailure == [][C20_Step]_vars

\* C20 witness: the caller has observed the rejection of a delete whose
\* BEGIN failed, and the user it named is still there.
C20_Witness ==
    \E o \in Ops :
        /\ op[o].kind = "deleteUserWithLog" /\ op[o].pc = "done"
        /\ op[o].trace = <<"open", "BEGIN", "BEGIN.fault", "close", "reject", "observe">>
        /\ SelectById(users, op[o].id) # {}

\* C19 as stated: a call whose connection could not be opened is rejected
\* with the connection error, by the callback that received that error.
C19_OpenFailureReachesCaller ==
    \A o \in Ops :
        Has(op[o].trace, "open.fault") =>
            /\ op[o].status = "rejected"
            /\ op[o].value = ErrorValue("SQLITE_CANTOPEN", "open")

\* The answers after which deleteUserWithLog abandons its transaction.
AbortingAnswers == {"SELECT.ok", "SELECT.fault", "INSERT.fault", "DELETE.fault"}

\* C21: a deleteUserWithLog call that leaves between a successful BEGIN and
\* the COMMIT (no user, or an error of the SELECT, the log INSERT or the
\* DELETE) issues ROLLBACK right after the answer that made it leave and
\* issues no statement of the workflow after it; once the ROLLBACK is
\* answered it calls db.close() and only then resolves with null (no user)
\* or rejects with the error of the failed step.
C21_RollbackCloseDeliver ==
    \A o \in Ops : op[o].kind = "deleteUserWithLog" =>
        LET tr == op[o].trace IN
        /\ (Settled(o) /\ Has(tr, "BEGIN.ok") /\ ~Has(tr, "COMMIT")) => Has(tr, "ROLLBACK")
        /\ Has(tr, "ROLLBACK") =>
              LET k == Pos(tr, "ROLLBACK") IN
              /\ Has(tr, "BEGIN.ok") /\ ~Has(tr, "COMMIT")
              /\ tr[k - 1] \in AbortingAnswers
              /\ \A i \in DOMAIN tr : i > k => ~IsStatement(tr[i])
              /\ Settled(o) =>
                    /\ Closes(op[o]) = 1 /\ Settles(op[o]) = 1
                    /\ tr[k + 1] \in {"ROLLBACK.ok", "ROLLBACK.fault"}
                    /\ tr[k + 2] = "close"
                    /\ tr[k + 3] = (IF tr[k - 1] = "SELECT.ok" THEN "resolve" ELSE "reject")
                    /\ Has(tr, "observe") => Pos(tr, "observe") = k + 4
                    /\ IF tr[k - 1] = "SELECT.ok"
                       THEN op[o].status = "resolved" /\ op[o].value = Null
                       ELSE /\ op[o].status = "rejected"
                            /\ op[o].value.tag = "error"
                            /\ tr[k - 1] \in {"SELECT.fault", "INSERT.fault", "DELETE.fault"}
                            /\ tr[k - 2] = op[o].value.stmt

\* C21 witness: the caller has observed the rejection of a delete whose
\* DELETE failed after the log INSERT succeeded and whose ROLLBACK went through.
C21_Witness ==
    \E o \in Ops :
        /\ op[o].kind = "deleteUserWithLog" /\ op[o].pc = "done"
        /\ Has(op[o].trace, "DELETE.fault") /\ Has(op[o].trace, "ROLLBACK.ok")
        /\ op[o].value = ErrorValue("SQLITE_ERROR", "DELETE")

\* The log rows of one user, and the deletes that have returned so far.
LogRowsOf(tbl, id) == {l \in tbl : l.user_id = id}
C22_State ==
    /\ \A i \in Ids : Cardinality(LogRowsOf(log, i)) = (IF i \in RemovedIds THEN 1 ELSE 0)
    /\ \A p, o \in Ops :
          (p # o /\ op[p].kind = "deleteUserWithLog" /\ op[o].kind = "deleteUserWithLog"
            /\ op[p].id = op[o].id /\ op[p].value.tag = "deleted" /\ Settled(o)) =>
              \/ op[o].status = "resolved" /\ op[o].value = Null
              \/ op[o].status = "rejected" /\ op[o].value.tag = "error"
C22_Step ==
    \A o \in Ops :
        (StepOf(o, "deleteUserWithLog") /\ op'[o].value.tag = "deleted") =>
            /\ op[o].id \notin RemovedIds
            /\ LogRowsOf(log, op[o].id) = {}
            /\ Cardinality(LogRowsOf(log', op[o].id)) = 1
            /\ \A p \in Ops \ {o} : op[p].lock = "none" /\ op[p].txLog = {}

C23_Step ==
    \A o \in Ops :
        (StepOf(o, "deleteUserWithLog") /\ Answered(o, "COMMIT.ok")) =>
            \E u \in users :
                /\ u.id = op[o].id
                /\ u \notin users'
                /\ log' # log
                /\ \A l \in log' \ log : l.user_id = u.id /\ l.email = u.email
                /\ op[o].userRow = {u}

\* C23: in the step in which a deleteUserWithLog commits, the log row it adds
\* carries the email the users row of that id holds at that very step (the
\* row the step removes), whatever updateUser calls on the id ran alongside:
\* the row fetched by the SELECT is still the row at the COMMIT.
C23_LogEmailFresh == [][C23_Step]_vars

\* C23 witness: an updateUser changed the email of a user and, between its
\* UPDATE and its re-read, a deleteUserWithLog of the same id ran from BEGIN
\* to COMMIT and logged the new email.
C23_Witness ==
    \E p, o \in Ops :
        /\ op[p].kind = "updateUser" /\ op[p].pc = "reread"
        /\ op[o].kind = "deleteUserWithLog" /\ op[o].id = op[p].id
        /\ Settled(o) /\ op[o].value.tag = "deleted"
        /\ recent = <<>>
        /\ \E l \in log : l.user_id = op[o].id /\ l.email = op[p].email
        /\ \E u \in created : u.id = op[o].id /\ u.email # op[p].email

\* What a step may do to the log.
C24_Step ==
    /\ log \subseteq log'
    /\ seqL' >= seqL
    /\ \A l \in log' \ log : l.id > seqL /\ \A k \in log : k.id # l.id
    /\ log' # log =>
          /\ Cardinality(log' \ log) = 1
          /\ \E o \in Ops : StepOf(o, "deleteUserWithLog") /\ Answered(o, "COMMIT.ok")
    /\ \A o \in Ops :
          (\E k \in {"createUser", "getAllUsers", "getUserById", "updateUser"} : StepOf(o, k))
             => log' = log /\ seqL' = seqL

\* C24: every step keeps every row of user_deletions_log as it is (same id,
\* user_id, email and deleted_at); the log grows only in the step in which a
\* deleteUserWithLog commits, by one row with a new id; and no step of
\* createUser, getAllUsers, getUserById or updateUser changes the log.
C24_LogAppendOnly == [][C24_Step]_vars

\* C24 witness: the log a previous run left has got a second row, and an
\* updateUser has run in this run as well.
C24_Witness ==
    /\ Cardinality(log) = 2
    /\ \A o \in Ops : ~Running(o)
    /\ \E o \in Ops : op[o].kind = "updateUser" /\ op[o].status = "resolved"

\* A call's promise in one state, and from one state to the next.
C25_Once ==
    \A o \in Ops :
        /\ Settles(op[o]) <= 1
        /\ Settled(o) <=> Settles(op[o]) = 1
        /\ op[o].status = "resolved" <=> Has(op[o].trace, "resolve")
        /\ op[o].status = "rejected" <=> Has(op[o].trace, "reject")
        /\ op[o].status = "pending" <=> ~Settled(o)
C25_Step ==
    \A o \in Ops :
        op[o].pc = "settled" =>
            op'[o].status = op[o].status /\ op'[o].value = op[o].value

\* C25: a call's promise is settled at most once, by resolve or by reject and
\* never by both, and what it was settled with stays; and, the store
\* answering every statement issued to it, every call that is running is
\* eventually settled.
C25_SettlesOnce ==
    /\ [](C25_Once)
    /\ [][C25_Step]_vars
    /\ \A o \in Ops : Running(o) ~> Settled(o)

\* C25 witness: a delete that went through its ROLLBACK and an updateUser
\* that was rejected have both settled.
C25_Witness ==
    \E p, o \in Ops :
        /\ op[p].kind = "deleteUserWithLog" /\ Settled(p) /\ Has(op[p].trace, "ROLLBACK.fault")
        /\ op[o].kind = "updateUser" /\ Settled(o) /\ op[o].status = "rejected"

\* The id parameters that are a positive integer, said without ValidId.
C26_PositiveInteger ==
    {s \in IdParams : ~ToNumber(s).nan /\ ToNumber(s).whole /\ ToNumber(s).val >= 1}
C26_Answers ==
    \A o \in Ops :
        op[o].kind \in {"getUserById", "updateUser", "deleteUserWithLog"} =>
            /\ op[o].param \notin C26_PositiveInteger =>
                  op[o].response = 400 /\ op[o].trace = <<>> /\ op[o].pc = "done"
            /\ op[o].response = 400 => op[o].trace = <<>>
            /\ (op[o].param \in C26_PositiveInteger /\ op[o].body # Null) =>
                  /\ op[o].id = IdNumber[op[o].param].val
                  /\ op[o].pc # "done" => op[o].response = 0
                  /\ op[o].pc = "done" =>
                        op[o].response = (IF op[o].status = "rejected" THEN 500
                                          ELSE IF op[o].value = Null THEN 404
                                          ELSE 200)
C26_Step ==
    \A o \in Ops :
        (op'[o] # op[o] /\ op'[o].response = 400) =>
            /\ nOpen' = nOpen /\ nClose' = nClose
            /\ users' = users /\ log' = log

\* C26: a request for handleGetUserById, handleUpdateUser or handleDeleteUser
\* whose id parameter is not a positive integer is answered 400 in the very
\* step it arrives, with no connection opened and no statement issued; with
\* a positive integer (and a valid body) the repository is called with that
\* number, and once the caller has its outcome the answer is 404 when the
\* repository resolved with null, 500 when it rejected (a store error carries
\* no statusCode), 200 otherwise.
C26_ControllerStatus == [][C26_Step /\ C26_Answers']_vars

\* C26 witness: a request with the id parameter "1.5" was answered 400 with
\* no connection opened for it, and a delete of an id no user has, made
\* through the controller after it, was answered 404.
C26_Witness ==
    \E p, o \in Ops :
        /\ op[p].kind = "getUserById" /\ op[p].param = <<"1", ".", "5">>
        /\ op[p].response = 400 /\ op[p].trace = <<>>
        /\ op[o].kind = "deleteUserWithLog" /\ op[o].param = <<"2">>
        /\ op[o].response = 404

====
